---- MODULE Spec2Model ----
(***************************************************************************)
(* easy_thumbnails.VIL.Image: a PIL-compatible facade over reportlab's     *)
(* SVGCanvas.  The model covers the Image handle (construction, resize,    *)
(* crop, convert, filter, the context-manager protocol, close, save) and   *)
(* the free functions new and load.                                        *)
(*                                                                         *)
(* Python values are modelled as follows.                                  *)
(*   - str: a sequence of one-character strings, so that formatting,       *)
(*     splitting and parsing are computed character by character;          *)
(*   - int: an integer;                                                    *)
(*   - float: a record [s, n, d], sign s (1 or -1) and magnitude n/d in    *)
(*     lowest terms.  Every float the model produces is a dyadic rational  *)
(*     of a few bits (dimensions are multiples of 50 and every requested   *)
(*     ratio is a power of two), for which IEEE-754 double arithmetic is   *)
(*     exact and repr is the plain decimal expansion, so the record        *)
(*     arithmetic below is the arithmetic Python performs, signed zero     *)
(*     included;                                                           *)
(*   - an argument that may be a tuple, a list or something else: a record *)
(*     [kind, numeric, elems].                                             *)
(***************************************************************************)
EXTENDS Integers, Sequences, FiniteSets, TLC

(***************************************************************************)
(* Bounds of the model.                                                    *)
(***************************************************************************)
\* handles a client holds at once
MaxHandles == 3
\* handles held at once where handles are also created from nothing
MaxCreated == 2
\* file objects in existence
MaxFiles == 1
\* nesting of with blocks
MaxScope == 1

(***************************************************************************)
(* Integers and strings.                                                   *)
(***************************************************************************)
Abs(i) == IF i < 0 THEN -i ELSE i

RECURSIVE Gcd(_, _)
Gcd(a, b) == IF b = 0 THEN a ELSE Gcd(b, a % b)

RECURSIVE Pow(_, _)
Pow(b, e) == IF e = 0 THEN 1 ELSE b * Pow(b, e - 1)

Digits == <<"0", "1", "2", "3", "4", "5", "6", "7", "8", "9">>

DigitVal(c) == (CHOOSE i \in 1..10 : Digits[i] = c) - 1

IsDigit(c) == \E i \in 1..10 : Digits[i] = c

\* decimal digits of a natural number, most significant first
RECURSIVE NatStr(_)
NatStr(n) == IF n < 10 THEN <<Digits[n + 1]>>
             ELSE NatStr(n \div 10) \o <<Digits[(n % 10) + 1]>>

\* str(i) of a Python int
IntStr(i) == IF i < 0 THEN <<"-">> \o NatStr(-i) ELSE NatStr(i)

\* value of a sequence of decimal digits
RECURSIVE DigitsVal(_)
DigitsVal(s) == IF s = <<>> THEN 0
                ELSE 10 * DigitsVal(SubSeq(s, 1, Len(s) - 1)) + DigitVal(s[Len(s)])

\* str.split(): the maximal runs of non-blank characters
RECURSIVE SplitWs(_, _, _)
SplitWs(s, cur, acc) ==
    IF s = <<>> THEN (IF cur = <<>> THEN acc ELSE Append(acc, cur))
    ELSE IF Head(s) = " "
         THEN SplitWs(Tail(s), <<>>, IF cur = <<>> THEN acc ELSE Append(acc, cur))
         ELSE SplitWs(Tail(s), Append(cur, Head(s)), acc)

Split(s) == SplitWs(s, <<>>, <<>>)

\* index of the last occurrence of c in s, 0 when there is none
RECURSIVE RFind(_, _)
RFind(s, c) == IF s = <<>> THEN 0
               ELSE IF s[Len(s)] = c THEN Len(s)
               ELSE RFind(SubSeq(s, 1, Len(s) - 1), c)

Upper == <<"S", "V", "G", "P", "N", "A">>
Lower == <<"s", "v", "g", "p", "n", "a">>

LowerChar(c) == IF \E i \in 1..Len(Upper) : Upper[i] = c
                THEN Lower[CHOOSE i \in 1..Len(Upper) : Upper[i] = c]
                ELSE c

\* str.lower()
StrLower(s) == [i \in 1..Len(s) |-> LowerChar(s[i])]

(***************************************************************************)
(* Floats.                                                                 *)
(***************************************************************************)
Norm(s, n, d) == LET g == Gcd(n, d) IN [s |-> s, n |-> n \div g, d |-> d \div g]

\* float(i) of an int
FromInt(i) == [s |-> IF i < 0 THEN -1 ELSE 1, n |-> Abs(i), d |-> 1]

FIsZero(x) == x.n = 0

FNeg(x) == [x EXCEPT !.s = -x.s]

\* x + y; an exact zero sum is -0.0 only when both operands are -0.0
FAdd(x, y) ==
    LET num == x.s * x.n * y.d + y.s * y.n * x.d
    IN  IF num = 0
        THEN [s |-> IF x.s = -1 /\ y.s = -1 THEN -1 ELSE 1, n |-> 0, d |-> 1]
        ELSE Norm(IF num < 0 THEN -1 ELSE 1, Abs(num), x.d * y.d)

FSub(x, y) == FAdd(x, FNeg(y))

FMul(x, y) == Norm(x.s * y.s, x.n * y.n, x.d * y.d)

\* x / y for y # 0 (Python raises ZeroDivisionError otherwise)
FDiv(x, y) == Norm(x.s * y.s, x.n * y.d, x.d * y.n)

FGt(x, y) == x.s * x.n * y.d > y.s * y.n * x.d

\* the decimal digits of the fraction n/d, 0 <= n < d, d a power of two
RECURSIVE FracStr(_, _)
FracStr(n, d) == IF n = 0 THEN <<>>
                 ELSE <<Digits[((10 * n) \div d) + 1]>> \o FracStr((10 * n) % d, d)

\* repr(x) of a float, which '{0}'.format(x) yields
FloatStr(x) ==
    LET ip == x.n \div x.d
        fr == FracStr(x.n % x.d, x.d)
    IN  (IF x.s = -1 THEN <<"-">> ELSE <<>>)
        \o NatStr(ip) \o <<".">> \o (IF fr = <<>> THEN <<"0">> ELSE fr)

\* whether float(t) accepts the token: [-]digits[.digits]
IsFloatToken(t) ==
    LET u == IF t # <<>> /\ Head(t) = "-" THEN Tail(t) ELSE t
        p == RFind(u, ".")
        ip == IF p = 0 THEN u ELSE SubSeq(u, 1, p - 1)
        fp == IF p = 0 THEN <<>> ELSE SubSeq(u, p + 1, Len(u))
    IN  /\ ip \o fp # <<>>
        /\ \A i \in 1..Len(ip) : IsDigit(ip[i])
        /\ \A i \in 1..Len(fp) : IsDigit(fp[i])

\* float(t) of an accepted token
ParseFloat(t) ==
    LET neg == t # <<>> /\ Head(t) = "-"
        u == IF neg THEN Tail(t) ELSE t
        p == RFind(u, ".")
        ip == IF p = 0 THEN u ELSE SubSeq(u, 1, p - 1)
        fp == IF p = 0 THEN <<>> ELSE SubSeq(u, p + 1, Len(u))
    IN  Norm(IF neg THEN -1 ELSE 1, DigitsVal(ip \o fp), Pow(10, Len(fp)))

(***************************************************************************)
(* Arguments.                                                              *)
(***************************************************************************)
Tuple(elems) == [kind |-> "tuple", numeric |-> TRUE, elems |-> elems]

List(elems) == [kind |-> "list", numeric |-> TRUE, elems |-> elems]

\* a tuple of strings
StrTuple(elems) == [kind |-> "tuple", numeric |-> FALSE, elems |-> elems]

\* a bare number passed where a pair is expected
Scalar(v) == [kind |-> "int", numeric |-> TRUE, elems |-> <<v>>]

None == [kind |-> "None", numeric |-> FALSE, elems |-> <<>>]

\* the truth value Python gives the argument in `if box:` and `if color:`
Truthy(a) == a.kind \in {"tuple", "list"} /\ a.elems # <<>>

Red == Tuple(<<255, 0, 0>>)

\* sizes a caller may pass a constructor: well-formed ones (a list too), a
\* non-positive one, and ill-formed ones: three numbers, two strings, a bare number
SizeArgs == {Tuple(<<100, 100>>), List(<<100, 100>>), Tuple(<<0, 100>>),
             Red, StrTuple(<<100, 100>>), Scalar(100)}

\* sizes a caller may pass resize
ResizeArgs == {Tuple(<<100, 50>>), Red}

\* crop boxes (left, upper, right, lower) a caller may pass: square, taller,
\* wider, inverted and offset, of no width, of no height, None, ()
BoxArgs == {Tuple(<<0, 0, 100, 100>>), Tuple(<<0, 0, 50, 100>>),
            Tuple(<<0, 0, 100, 50>>), Tuple(<<50, 50, 0, 150>>),
            Tuple(<<0, 0, 0, 100>>), Tuple(<<0, 0, 100, 0>>),
            None, Tuple(<<>>)}

VARIABLES handles, docs, files, scope, last

vars == <<handles, docs, files, scope, last>>

Handles == 1..Len(handles)

\* the record of the last call: operation, receiver, argument, result, exception
Call(op, h, arg, res, exc) == [op |-> op, h |-> h, arg |-> arg, res |-> res, exc |-> exc]

(***************************************************************************)
(* Image.__init__                                                          *)
(***************************************************************************)
\* the assertion without its length check
ValidSizeAnyLength(size) == /\ size.kind \in {"list", "tuple"}
                            /\ size.numeric

\* the assertion of __init__: a list or tuple of two ints or floats
ValidSize(size) == /\ size.kind \in {"list", "tuple"}
                   /\ Len(size.elems) = 2
                   /\ size.numeric

\* the document of a new renderSVG.SVGCanvas(size=size): its svg element's
\* width, height and viewBox "0 0 w h"
SVGCanvas(size) ==
    [viewBox |-> <<"0", " ", "0", " ">> \o IntStr(size.elems[1]) \o <<" ">>
                 \o IntStr(size.elems[2]),
     width |-> IntStr(size.elems[1]),
     height |-> IntStr(size.elems[2]),
     body |-> "blank"]

\* the attributes __init__ gives a handle whose canvas document is svg; fp,
\* _exclusive_fp, map and im are attributes __init__ does not create
Image(size, svg) ==
    [size |-> size.elems, svg |-> svg, fill |-> None, mode |-> "None",
     fp |-> -1, excl |-> "absent", map |-> "absent", im |-> "absent"]

\* Image(size=size) called by a client
Construct(size) ==
    /\ IF ~ValidSize(size)
       THEN /\ last' = Call("Image", 0, size, 0, "AssertionError")
            /\ UNCHANGED <<handles, docs>>
       ELSE /\ Len(handles) < MaxHandles
            /\ docs' = Append(docs, SVGCanvas(size))
            /\ handles' = Append(handles, Image(size, Len(docs) + 1))
            /\ last' = Call("Image", 0, size, Len(handles) + 1, "none")
    /\ UNCHANGED <<files, scope>>

(***************************************************************************)
(* getbbox, resize, convert, filter, crop                                  *)
(***************************************************************************)
\* whether getbbox can parse the document's viewBox
BBoxParses(doc) == LET toks == Split(doc.viewBox)
                   IN  \A i \in 1..Len(toks) : IsFloatToken(toks[i])

\* getbbox(): the floats of the viewBox attribute
getbbox(doc) == LET toks == Split(doc.viewBox)
                IN  [i \in 1..Len(toks) |-> ParseFloat(toks[i])]

\* the copy shares the node of the source
cloneNodeShared(d) == d

\* the identity of the node canvas.svg.cloneNode(True) returns: a new node
cloneNode(d) == Len(docs) + 1

\* resize(size)
Resize(h, size) ==
    /\ IF ~ValidSize(size)
       THEN /\ last' = Call("resize", h, size, 0, "AssertionError")
            /\ UNCHANGED <<handles, docs>>
       ELSE /\ Len(handles) < MaxHandles
            /\ docs' = Append(docs, docs[handles[h].svg])
            /\ handles' = Append(handles, Image(size, cloneNode(handles[h].svg)))
            /\ last' = Call("resize", h, size, Len(handles) + 1, "none")
    /\ UNCHANGED <<files, scope>>

\* convert(*args): returns the receiver
Convert(h) ==
    /\ last' = Call("convert", h, None, h, "none")
    /\ UNCHANGED <<handles, docs, files, scope>>

\* filter(*args): returns the receiver
Filter(h) ==
    /\ last' = Call("filter", h, None, h, "none")
    /\ UNCHANGED <<handles, docs, files, scope>>

\* the divisions of crop that raise ZeroDivisionError
CropDivides(bbox, box) ==
    /\ ~FIsZero(FSub(bbox[4], bbox[2]))
    /\ box[4] - box[2] # 0
    /\ LET current == FDiv(FSub(bbox[3], bbox[1]), FSub(bbox[4], bbox[2]))
           wanted == FDiv(FromInt(box[3] - box[1]), FromInt(box[4] - box[2]))
       IN  FGt(current, wanted) \/ ~FIsZero(wanted)

\* the bounding box shrunk and left where it was: no re-centring
CropBBoxNotCentred(bbox, box) ==
    LET current == FDiv(FSub(bbox[3], bbox[1]), FSub(bbox[4], bbox[2]))
        wanted == FDiv(FromInt(box[3] - box[1]), FromInt(box[4] - box[2]))
    IN  IF FGt(current, wanted)
        THEN <<bbox[1], bbox[2], FMul(wanted, bbox[4]), bbox[4]>>
        ELSE <<bbox[1], bbox[2], bbox[3], FDiv(bbox[3], wanted)>>

\* the bounding box crop computes from the source's and the requested box
CropBBox(bbox, box) ==
    LET current == FDiv(FSub(bbox[3], bbox[1]), FSub(bbox[4], bbox[2]))
        wanted == FDiv(FromInt(box[3] - box[1]), FromInt(box[4] - box[2]))
    IN  IF FGt(current, wanted)
        THEN LET new_width == FMul(wanted, bbox[4])
             IN  <<FAdd(bbox[1], FDiv(FSub(bbox[3], new_width), FromInt(2))),
                   bbox[2], new_width, bbox[4]>>
        ELSE LET new_height == FDiv(bbox[3], wanted)
             IN  <<bbox[1],
                   FAdd(bbox[2], FDiv(FSub(bbox[4], new_height), FromInt(2))),
                   bbox[3], new_height>>

\* the size crop gives the copy
CropSize(box) == <<box[3] - box[1], box[4] - box[2]>>

\* '{0} {1} {2} {3}'.format(*bbox)
ViewBoxAttr(bbox) == FloatStr(bbox[1]) \o <<" ">> \o FloatStr(bbox[2]) \o <<" ">>
                     \o FloatStr(bbox[3]) \o <<" ">> \o FloatStr(bbox[4])

\* '{0}'.format(*copy.size)
WidthAttr(size) == IntStr(size[1])

\* the height formatted from the width: '{0}'.format(*copy.size)
HeightAttrFromWidth(size) == IntStr(size[1])

\* '{1}'.format(*copy.size)
HeightAttr(size) == IntStr(size[2])

\* crop(box)
Crop(h, box) ==
    LET src == docs[handles[h].svg]
        copy == cloneNode(handles[h].svg)
        cloned == Append(docs, src)
        bbox == getbbox(src)
    IN
    /\ IF ~Truthy(box)
       THEN /\ Len(handles) < MaxHandles
            /\ docs' = cloned
            /\ handles' = Append(handles, Image(Tuple(handles[h].size), copy))
            /\ last' = Call("crop", h, box, Len(handles) + 1, "none")
       ELSE IF ~BBoxParses(src) \/ Len(bbox) < 4
       THEN /\ last' = Call("crop", h, box, 0, "ValueError")
            /\ UNCHANGED <<handles, docs>>
       ELSE IF ~CropDivides(bbox, box.elems)
       THEN /\ last' = Call("crop", h, box, 0, "ZeroDivisionError")
            /\ UNCHANGED <<handles, docs>>
       ELSE /\ Len(handles) < MaxHandles
            /\ docs' = [cloned EXCEPT ![copy] =
                          [@ EXCEPT !.viewBox = ViewBoxAttr(CropBBox(bbox, box.elems)),
                                    !.width = WidthAttr(CropSize(box.elems)),
                                    !.height = HeightAttr(CropSize(box.elems))]]
            /\ handles' = Append(handles,
                                 [Image(Tuple(handles[h].size), copy)
                                    EXCEPT !.size = CropSize(box.elems)])
            /\ last' = Call("crop", h, box, Len(handles) + 1, "none")
    /\ UNCHANGED <<files, scope>>

(***************************************************************************)
(* new, load                                                               *)
(***************************************************************************)
\* no keyword argument given
Absent == [kind |-> "absent", numeric |-> FALSE, elems |-> <<>>]

\* the calls of new a client may write: positional arguments and color=...
NewCalls == {[pos |-> p, color |-> c] :
                p \in {<<Tuple(<<50, 100>>)>>, <<Tuple(<<50, 100>>), Red>>,
                       <<None, Tuple(<<50, 100>>)>>, <<None, Tuple(<<50, 100>>), Red>>},
                c \in {Absent, Red}}

\* Python binds the positional arguments to the parameters (self, size,
\* color=None) in this order, then the keyword; a parameter without a value, or
\* with two, is a TypeError
NewBinds(call) == /\ Len(call.pos) >= 2
                  /\ Len(call.pos) <= 3
                  /\ ~(Len(call.pos) = 3 /\ call.color # Absent)

\* the value bound to the parameter size
NewSize(call) == call.pos[2]

\* the value bound to the parameter color
NewColor(call) == IF Len(call.pos) = 3 THEN call.pos[3]
                  ELSE IF call.color # Absent THEN call.color
                  ELSE None

\* new(...)
New(call) ==
    /\ IF ~NewBinds(call)
       THEN /\ last' = Call("new", 0, call, 0, "TypeError")
            /\ UNCHANGED <<handles, docs>>
       ELSE IF ~ValidSize(NewSize(call))
       THEN /\ last' = Call("new", 0, call, 0, "AssertionError")
            /\ UNCHANGED <<handles, docs>>
       ELSE /\ Len(handles) < MaxHandles
            /\ docs' = Append(docs, SVGCanvas(NewSize(call)))
            /\ handles' = Append(handles,
                                 [Image(NewSize(call), Len(docs) + 1)
                                    EXCEPT !.fill = IF Truthy(NewColor(call))
                                                    THEN NewColor(call) ELSE @])
            /\ last' = Call("new", 0, call, Len(handles) + 1, "none")
    /\ UNCHANGED <<files, scope>>

\* what svg2rlg makes of a file: None, or a drawing with a width and a height
Drawings == {None, Tuple(<<100, 50>>)}

\* the type of fp checked before StringIO is rejected
LoadRaisesTypeFirst(fp, mode) ==
    IF mode # "r" THEN "ValueError"
    ELSE IF fp \notin {"Path", "str"} THEN "RuntimeError"
    ELSE "none"

\* the exception load raises before it parses, "none" when it goes on
LoadRaises(fp, mode) ==
    IF mode # "r" THEN "ValueError"
    ELSE IF fp = "StringIO" THEN "ValueError"
    ELSE IF fp \notin {"Path", "str"} THEN "RuntimeError"
    ELSE "none"

\* the argument record of a call of load
LoadArg(fp, mode, drawing) == [fp |-> fp, mode |-> mode, drawing |-> drawing]

\* load(fp, mode); svg2rlg is called, and answers, only when nothing was raised
Load(fp, mode) ==
    /\ IF LoadRaises(fp, mode) # "none"
       THEN /\ last' = Call("load", 0, LoadArg(fp, mode, None), 0, LoadRaises(fp, mode))
            /\ UNCHANGED <<handles, docs>>
       ELSE \E drawing \in Drawings :
            IF drawing = None
            THEN /\ last' = Call("load", 0, LoadArg(fp, mode, drawing), 0, "none")
                 /\ UNCHANGED <<handles, docs>>
            ELSE /\ Len(handles) < MaxHandles
                 /\ docs' = Append(docs, [SVGCanvas(drawing) EXCEPT !.body = "drawn"])
                 /\ handles' = Append(handles, Image(drawing, Len(docs) + 1))
                 /\ last' = Call("load", 0, LoadArg(fp, mode, drawing), Len(handles) + 1, "none")
    /\ UNCHANGED <<files, scope>>

(***************************************************************************)
(* Files, the context-manager protocol, close, save                        *)
(***************************************************************************)
StrName(chars) == [type |-> "str", chars |-> chars]

BytesName(chars) == [type |-> "bytes", chars |-> chars]

\* a file object without a name attribute, such as io.BytesIO
NoName == [type |-> "none", chars |-> <<>>]

\* the names clients give the file objects they open
FileNames == {StrName(<<"a", ".", "s", "v", "g">>), NoName}

\* the targets clients pass save besides file objects: str, bytes, Path
PathTargets == {[kind |-> "str", chars |-> <<"a", ".", "s", "v", "g">>],
                [kind |-> "str", chars |-> <<"a", ".", "p", "n", "g">>],
                [kind |-> "str", chars |-> <<".", "s", "v", "g">>],
                [kind |-> "Path", chars |-> <<"a", ".", "S", "V", "G">>],
                [kind |-> "bytes", chars |-> <<"a", ".", "s", "v", "g">>]}

Formats == {"SVG", "PNG", "None"}

Files == 1..Len(files)

\* a file object: opener is the handle whose save opened it, 0 for a client's;
\* a faulty file raises when it is closed; content is what was written to it
File(opener, name, faulty) ==
    [state |-> "open", opener |-> opener, name |-> name, faulty |-> faulty,
     content |-> <<>>]

\* a client opens a file object in binary mode
OpenFile(name, faulty) ==
    /\ Len(files) < MaxFiles
    /\ files' = Append(files, File(0, name, faulty))
    /\ last' = Call("open", 0, name, Len(files) + 1, "none")
    /\ UNCHANGED <<handles, docs, scope>>

\* a client sets the attributes __exit__ and close read and no method of the
\* handle creates: fp, and _exclusive_fp when the file is the handle's own
AssignFp(h, f, excl) ==
    /\ handles[h].map = "absent"
    /\ files[f].opener = 0
    /\ handles' = [handles EXCEPT ![h].fp = f,
                                  ![h].excl = IF excl THEN "True" ELSE @]
    /\ last' = Call("assign", h, None, f, "none")
    /\ UNCHANGED <<docs, files, scope>>

\* __enter__
Enter(h) ==
    /\ Len(scope) < MaxScope
    /\ scope' = <<h>> \o scope
    /\ last' = Call("enter", h, None, h, "none")
    /\ UNCHANGED <<handles, docs, files>>

\* fp.close() raises: the file is open and faulty
CloseRaises(f) == files[f].state = "open" /\ files[f].faulty

\* whether __exit__ closes the file pointer
ExitCloses(h) == /\ handles[h].fp # -1
                 /\ handles[h].excl = "True"
                 /\ handles[h].fp # 0

\* __exit__, called when the with block of h ends, normally or by an exception
Exit(h) ==
    /\ scope # <<>> /\ Head(scope) = h
    /\ scope' = Tail(scope)
    /\ IF ExitCloses(h) /\ CloseRaises(handles[h].fp)
       THEN /\ \E st \in {"open", "closed"} :
                 files' = [files EXCEPT ![handles[h].fp].state = st]
            /\ last' = Call("exit", h, None, 0, "OSError")
            /\ UNCHANGED handles
       ELSE /\ files' = IF ExitCloses(h)
                        THEN [files EXCEPT ![handles[h].fp].state = "closed"]
                        ELSE files
            /\ handles' = [handles EXCEPT ![h].fp = 0]
            /\ last' = Call("exit", h, None, 0, "none")
    /\ UNCHANGED docs

\* no except clause: the exception leaves close
SwallowNothing(exc) == exc

\* `except Exception as msg: pass`
Swallow(exc) == "none"

\* the exception the try block of close raises, "none" when it completes
CloseTry(h) == IF handles[h].fp \in {-1, 0} THEN "AttributeError"
               ELSE IF CloseRaises(handles[h].fp) THEN "OSError"
               ELSE "none"

\* close()
Close(h) ==
    /\ IF CloseTry(h) = "none"
       THEN /\ files' = [files EXCEPT ![handles[h].fp].state = "closed"]
            /\ handles' = [handles EXCEPT ![h].fp = 0, ![h].map = "None", ![h].im = "None"]
            /\ last' = Call("close", h, None, 0, "none")
       ELSE /\ IF CloseTry(h) = "OSError"
               THEN \E st \in {"open", "closed"} :
                       files' = [files EXCEPT ![handles[h].fp].state = st]
               ELSE files' = files
            /\ handles' = IF Swallow(CloseTry(h)) = "none"
                          THEN [handles EXCEPT ![h].map = "None", ![h].im = "None"]
                          ELSE handles
            /\ last' = Call("close", h, None, 0, Swallow(CloseTry(h)))
    /\ UNCHANGED <<docs, scope>>

\* PurePath.suffix of a name without separators
Suffix(name) == LET i == RFind(name, ".")
                IN  IF 1 < i /\ i < Len(name) THEN SubSeq(name, i, Len(name)) ELSE <<>>

\* the filename save resolves: the path, else the file object's name if it is a
\* str or bytes, else ""
Filename(target) ==
    IF target.kind \in {"str", "Path"} THEN StrName(target.chars)
    ELSE IF target.kind = "bytes" THEN BytesName(target.chars)
    ELSE IF files[target.file].name.type \in {"str", "bytes"} THEN files[target.file].name
    ELSE StrName(<<>>)

\* open_fp
OpenFp(target) == target.kind \in {"str", "bytes", "Path"}

\* Path(filename) accepts a str only
PathAccepts(filename) == filename.type = "str"

\* the format and suffix check
FormatOk(filename, format) ==
    format = "SVG" \/ StrLower(Suffix(filename.chars)) = <<".", "s", "v", "g">>

FileTarget(f) == [kind |-> "file", file |-> f, chars |-> <<>>]

SaveArg(target, format) == [target |-> target, format |-> format]

\* save(fp, format); written tells whether writexml completes
Save(h, target, format, written) ==
    LET filename == Filename(target)
        arg == SaveArg(target, format)
        fp == IF OpenFp(target) THEN Len(files) + 1 ELSE target.file
        opened == IF OpenFp(target)
                  THEN Append(files, File(h, filename, FALSE))
                  ELSE files
    IN
    /\ target.kind = "file" => target.file \in Files /\ files[target.file].state = "open"
                               /\ files[target.file].opener = 0
    /\ IF ~PathAccepts(filename)
       THEN /\ last' = Call("save", h, arg, 0, "TypeError")
            /\ UNCHANGED files
       ELSE IF ~FormatOk(filename, format)
       THEN /\ last' = Call("save", h, arg, 0, "ValueError")
            /\ UNCHANGED files
       ELSE /\ OpenFp(target) => Len(files) < MaxFiles
            /\ IF written
               THEN /\ files' = [opened EXCEPT ![fp].content = <<docs[handles[h].svg]>>]
                    /\ last' = Call("save", h, arg, fp, "none")
               ELSE /\ files' = opened
                    /\ last' = Call("save", h, arg, fp, "OSError")
    /\ UNCHANGED <<handles, docs, scope>>

\* the runtime finalizes a file object that save opened and dropped: sooner or
\* later, or never
Finalize(f) ==
    /\ files[f].opener # 0
    /\ files[f].state = "open"
    /\ files' = [files EXCEPT ![f].state = "closed"]
    /\ last' = Call("finalize", 0, None, f, "none")
    /\ UNCHANGED <<handles, docs, scope>>

(***************************************************************************)
(* Specifications                                                          *)
(***************************************************************************)
Init == /\ handles = <<>>
        /\ docs = <<>>
        /\ files = <<>>
        /\ scope = <<>>
        /\ last = Call("init", 0, None, 0, "none")

\* the client holds no more than MaxCreated handles
Held == Len(handles') <= MaxCreated

Next == \/ \E size \in SizeArgs : Construct(size) /\ Held
        \/ \E fp \in {"str", "Path", "StringIO", "BytesIO"}, mode \in {"r", "w"} :
              Load(fp, mode) /\ Held
        \/ \E h \in Handles, size \in ResizeArgs : Resize(h, size) /\ Held
        \/ \E h \in Handles, box \in BoxArgs : Crop(h, box) /\ Held
        \/ \E h \in Handles : Convert(h)
        \/ \E h \in Handles : Filter(h)

\* every operation that makes or returns a handle, besides new
Spec == Init /\ [][Next]_vars

\* the state after Image(size) made one handle: square, oblong, of no width
InitDerive == /\ \E size \in {Tuple(<<100, 100>>), Tuple(<<100, 50>>), Tuple(<<0, 100>>)} :
                   /\ docs = <<SVGCanvas(size)>>
                   /\ handles = <<Image(size, 1)>>
                   /\ last = Call("Image", 0, size, 1, "none")
              /\ files = <<>>
              /\ scope = <<>>

NextDerive == \/ \E h \in Handles, size \in ResizeArgs : Resize(h, size)
              \/ \E h \in Handles, box \in BoxArgs : Crop(h, box)

\* derivation: resize and crop of one constructed handle and of their results
SpecDerive == InitDerive /\ [][NextDerive]_vars

NextNew == \/ \E call \in NewCalls : New(call)
           \/ \E size \in SizeArgs : Construct(size)
           \/ \E h \in Handles : Convert(h)
           \/ \E h \in Handles : Filter(h)

\* new, beside the constructor
SpecNew == Init /\ [][NextNew]_vars

\* the state after Image((100, 100))
InitFile == /\ docs = <<SVGCanvas(Tuple(<<100, 100>>))>>
            /\ handles = <<Image(Tuple(<<100, 100>>), 1)>>
            /\ last = Call("Image", 0, Tuple(<<100, 100>>), 1, "none")
            /\ files = <<>>
            /\ scope = <<>>

SaveTargets == PathTargets \cup {FileTarget(f) : f \in Files}

NextFile == \/ \E name \in FileNames, faulty \in BOOLEAN : OpenFile(name, faulty)
            \/ \E h \in Handles, f \in Files, excl \in BOOLEAN : AssignFp(h, f, excl)
            \/ \E h \in Handles : Enter(h)
            \/ \E h \in Handles : Exit(h)
            \/ \E h \in Handles : Close(h)
            \/ \E h \in Handles, target \in SaveTargets, format \in Formats,
                  written \in BOOLEAN : Save(h, target, format, written)
            \/ \E f \in Files : Finalize(f)

\* the resources of one handle: files, with blocks, close, save
SpecFile == InitFile /\ [][NextFile]_vars

(***************************************************************************)
(* Properties                                                              *)
(***************************************************************************)
\* numeric equality of floats (0.0 == -0.0)
FEq(x, y) == x.n = y.n /\ x.d = y.d /\ (x.n = 0 \/ x.s = y.s)

\* int(s) of the decimal string of an int
IntOfStr(s) == IF s # <<>> /\ Head(s) = "-" THEN -DigitsVal(Tail(s)) ELSE DigitsVal(s)

Exists(hs, h) == h \in 1..Len(hs)

\* a crop with a box given that returned a handle
CropApplied == last.op = "crop" /\ last.exc = "none" /\ Truthy(last.arg)

\* files the save of handle h opened
OpenedBy(fs, h) == {f \in 1..Len(fs) : fs[f].opener = h}

\* C1: when the with block of a handle ends, normally or by an exception, every
\* file that the handle opened itself is closed, and a file the client
\* supplied open (not made over to the handle as its exclusive file pointer) is
\* left as it was.
ScopeExitReleasesOwnFiles ==
    [][last'.op = "exit" =>
         /\ \A f \in OpenedBy(files', last'.h) : files'[f].state = "closed"
         /\ \A f \in Files :
              (files[f].opener = 0
               /\ ~(handles[last'.h].fp = f /\ handles[last'.h].excl = "True"))
              => files'[f].state = files[f].state]_vars

\* C2: after save(path) followed by close() or by the end of the with block, no
\* file that save opened is open; and no step of the handle closes a file
\* object that the client passed to save and did not attach to the handle.
SavedPathIsClosedByHandle ==
    [][/\ last'.op \in {"close", "exit"} =>
            \A f \in OpenedBy(files', last'.h) : files'[f].state = "closed"
       /\ last'.op \in {"save", "close", "exit"} =>
            \A f \in Files : (files[f].opener = 0 /\ handles[last'.h].fp # f)
                             => files'[f].state = files[f].state]_vars

DerivationNeverAliases ==
    [][/\ \A h1, h2 \in 1..Len(handles') :
            h1 # h2 => handles'[h1].svg # handles'[h2].svg
       /\ last'.op \in {"resize", "crop"} =>
            /\ \A h \in Handles : handles'[h] = handles[h]
            /\ \A d \in 1..Len(docs) : docs'[d] = docs[d]
       /\ (last'.op = "resize" /\ last'.exc = "none") =>
            /\ ~Exists(handles, last'.res) /\ Exists(handles', last'.res)
            /\ handles'[last'.res].size = last'.arg.elems
       /\ (last'.op = "crop" /\ ~Truthy(last'.arg)) =>
            /\ last'.exc = "none"
            /\ ~Exists(handles, last'.res) /\ Exists(handles', last'.res)
            /\ handles'[last'.res].size = handles[last'.h].size]_vars

\* C4 witness: a handle was resized and the copy cropped with a box; the copy of
\* the copy has a document of its own, with another view-box.
DerivedFromDerived ==
    /\ Len(handles) = 3
    /\ CropApplied /\ last.h = 2 /\ last.res = 3
    /\ handles[2].size # handles[1].size
    /\ docs[handles[2].svg] = docs[handles[1].svg]
    /\ docs[handles[3].svg] # docs[handles[2].svg]

\* what C5 calls a two-element numeric pair
TwoNumbers(arg) == arg.kind \in {"tuple", "list"} /\ arg.numeric /\ Len(arg.elems) = 2

\* C5 as amended: every handle's size is a pair of two numbers, and
\* constructing with a size that is not a two-element numeric pair fails with
\* no handle made.
SizeIsNumericPair ==
    /\ \A h \in Handles : Len(handles[h].size) = 2
                          /\ \A i \in 1..2 : handles[h].size[i] \in Int
    /\ (last.op = "Image" /\ ~TwoNumbers(last.arg))
       => (last.exc = "AssertionError" /\ last.res = 0)

\* C5 as stated: every handle's size is a pair of two positive numbers, and
\* constructing with a size that is not a two-element numeric pair fails with
\* no handle made.
SizeIsPositivePair ==
    /\ \A h \in Handles : /\ Len(handles[h].size) = 2
                          /\ \A i \in 1..2 : handles[h].size[i] \in Int
                                             /\ handles[h].size[i] > 0
    /\ (last.op = "Image" /\ ~TwoNumbers(last.arg))
       => (last.exc = "AssertionError" /\ last.res = 0)

\* C5 witness: crop with an inverted box returned a handle of negative width.
CropMadeNegativeSize ==
    /\ CropApplied
    /\ handles[last.res].size[1] < 0

\* C6: the view-box crop(box) sets, read back from the copy's document, is the
\* source's (b0, b1, b2, b3) with, for r the ratio of the box, either the width
\* r * b3 and b0 moved by half of what the width lost, when
\* (b2 - b0) / (b3 - b1) > r, or else the height b2 / r and b1 moved by half of
\* what the height lost; (0, 0, 100, 100) cropped to (0, 0, 50, 100) gives
\* "25.0 0.0 50.0 100.0".
CropViewBoxFormula ==
    CropApplied =>
       LET b == getbbox(docs[handles[last.h].svg])
           n == getbbox(docs[handles[last.res].svg])
           box == last.arg.elems
           r == FDiv(FromInt(box[3] - box[1]), FromInt(box[4] - box[2]))
           two == FromInt(2)
       IN  /\ Len(n) = 4
           /\ IF FGt(FDiv(FSub(b[3], b[1]), FSub(b[4], b[2])), r)
              THEN /\ FEq(n[3], FMul(r, b[4]))
                   /\ FEq(n[1], FAdd(b[1], FDiv(FSub(b[3], FMul(r, b[4])), two)))
                   /\ FEq(n[2], b[2]) /\ FEq(n[4], b[4])
              ELSE /\ FEq(n[4], FDiv(b[3], r))
                   /\ FEq(n[2], FAdd(b[2], FDiv(FSub(b[4], FDiv(b[3], r)), two)))
                   /\ FEq(n[1], b[1]) /\ FEq(n[3], b[3])
           /\ (docs[handles[last.h].svg].viewBox
                  = <<"0", " ", "0", " ", "1", "0", "0", " ", "1", "0", "0">>
               /\ box = <<0, 0, 50, 100>>)
              => docs[handles[last.res].svg].viewBox
                  = <<"2", "5", ".", "0", " ", "0", ".", "0", " ",
                      "5", "0", ".", "0", " ", "1", "0", "0", ".", "0">>

\* C6 witness: a crop with a box of a handle whose view-box does not start at 0,
\* which takes the branch that shrinks the width.
CropOfCropped ==
    /\ CropApplied
    /\ LET b == getbbox(docs[handles[last.h].svg])
           box == last.arg.elems
       IN  /\ ~FIsZero(b[1])
           /\ FGt(FDiv(FSub(b[3], b[1]), FSub(b[4], b[2])),
                  FDiv(FromInt(box[3] - box[1]), FromInt(box[4] - box[2])))

\* the suffix C7 speaks of: of the path, or of the name of the file object
TargetSuffix(target) ==
    IF target.kind = "file"
    THEN StrLower(Suffix(files[target.file].name.chars))
    ELSE StrLower(Suffix(target.chars))

\* C7: save raises ValueError exactly when the format is not 'SVG' and the
\* lower-cased suffix of the filename is not '.svg'; a save that raises it opens
\* no file and writes nothing, and every other save reaches the target and,
\* unless writing fails, leaves the document in it.
SaveFailsExactlyOnFormat ==
    [][last'.op = "save" =>
         LET bad == /\ last'.arg.format # "SVG"
                    /\ TargetSuffix(last'.arg.target) # <<".", "s", "v", "g">>
         IN  /\ (last'.exc = "ValueError") <=> bad
             /\ bad => files' = files
             /\ ~bad => /\ last'.res \in 1..Len(files')
                        /\ last'.exc \in {"none", "OSError"}
                        /\ last'.exc = "none"
                           => files'[last'.res].content
                                = <<docs[handles[last'.h].svg]>>]_vars

NewReturnsSizedHandle ==
    (/\ last.op = "new"
     /\ Len(last.arg.pos) <= 2
     /\ TwoNumbers(last.arg.pos[1])
     /\ ~(Len(last.arg.pos) = 2 /\ last.arg.color # Absent))
    => /\ last.exc = "none"
       /\ last.res \in Handles
       /\ handles[last.res].size = last.arg.pos[1].elems
       /\ Len(last.arg.pos) = 2 => handles[last.res].fill = last.arg.pos[2]
       /\ last.arg.color # Absent => handles[last.res].fill = last.arg.color

\* C10: after crop(box) with a box the copy's size is (right - left,
\* lower - upper), its document's width attribute reads as the width and its
\* height attribute as the height.
CropSizeAndAttributes ==
    CropApplied =>
       LET box == last.arg.elems
           copy == handles[last.res]
       IN  /\ copy.size = <<box[3] - box[1], box[4] - box[2]>>
           /\ IntOfStr(docs[copy.svg].width) = copy.size[1]
           /\ IntOfStr(docs[copy.svg].height) = copy.size[2]

\* C10 witness: a crop with a box whose width and height differ.
CropToOblong ==
    /\ CropApplied
    /\ handles[last.res].size[1] # handles[last.res].size[2]
====
